---- MODULE Spec2Model ----
(***************************************************************************)
(* A model of the article validation engine of the Hacker News harness:    *)
(* utils/ArticleValidator.ts (ArticleValidator) with the configuration of  *)
(* app.config.ts.  A collection of element handles is validated for        *)
(* ordering, content, freshness and uniqueness.                            *)
(*                                                                         *)
(* JavaScript values are modelled by explicit sums: a number is a record   *)
(* [k, v] with k in {"num", "nan", "inf", "null"}, an optional property is *)
(* a set of at most one element, a string that is only tested for          *)
(* emptiness and equality is a TLA+ string, and a string whose text        *)
(* matters (messages, score text) is a sequence of characters.  Array      *)
(* index i of the source is position i + 1 of a TLA+ sequence.             *)
(***************************************************************************)
EXTENDS Integers, Sequences, FiniteSets, TLC

VARIABLES
    articles,          \* the argument handed to the validator
    articleCount,      \* app.config.ts: articleCount
    pc,                \* "idle" | "running" | "listed" | "done"
    op,                \* the entry point that was called
    now,               \* Date.now() as sampled by validateTimestampAccuracy
    sorting,           \* outcome of validateSorting
    sortingLog,        \* what getArticleTimestamp returned to validateSorting, call by call
    content,           \* outcome of Promise.all(articles.map(validateArticleContent))
    timestampAccuracy, \* outcome of validateTimestampAccuracy
    accuracyLog,       \* what getArticleTimestamp returned to validateTimestampAccuracy
    uniqueness,        \* outcome of validateUniqueness
    full,              \* outcome of performFullValidation
    clock,             \* what Date.now() returns at this moment
    tasks,             \* the validations a running performFullValidation awaits
    views,             \* the rows the four listing URLs of HackerNewsPage show
    firstHundred,      \* outcome of HackerNewsPage.getFirstHundredArticles
    isSorted           \* outcome of HackerNewsPage.validateSorting

pageVars == <<views, firstHundred, isSorted>>

vars == <<articles, articleCount, pc, op, now, sorting, sortingLog, content,
          timestampAccuracy, accuracyLog, uniqueness, full, clock, tasks,
          views, firstHundred, isSorted>>

---------------------------------------------------------------------------
(* Bounds of the model *)

\* longest collection whose items are enumerated exhaustively
MaxShort == 2
TitleRun == 3
\* timestamp of the newest article of a generated collection (ms)
T0 == 1000000
\* distance between neighbouring articles of a descending collection (ms)
StepMs == 1000
\* how far a displaced article is moved (ms)
JumpMs == 2500

---------------------------------------------------------------------------
(* JavaScript values *)

Null     == [k |-> "null", v |-> 0]
NaN      == [k |-> "nan", v |-> 0]
Infinity == [k |-> "inf", v |-> 0]
Num(n)   == [k |-> "num", v |-> n]

\* ToNumber: null converts to 0
ToNumber(a) == IF a.k = "null" THEN Num(0) ELSE a

\* a > b on numbers: every comparison with NaN is false
JsGt(a, b) ==
    LET x == ToNumber(a)
        y == ToNumber(b)
    IN  CASE x.k = "nan" \/ y.k = "nan" -> FALSE
          [] x.k = "inf" -> y.k # "inf"
          [] y.k = "inf" -> FALSE
          [] OTHER -> x.v > y.v

\* a - b on numbers (a finite)
JsMinus(a, b) ==
    LET x == ToNumber(a)
        y == ToNumber(b)
    IN  CASE x.k = "nan" \/ y.k = "nan" -> NaN
          [] y.k = "inf" -> NaN
          [] OTHER -> Num(x.v - y.v)

Return(v) == [threw |-> FALSE, value |-> v]
Throw(e)  == [threw |-> TRUE, value |-> e]
None      == [threw |-> FALSE, value |-> "none"]

DigitChars == <<"0","1","2","3","4","5","6","7","8","9">>

\* the decimal text of a number, as template literals produce it
RECURSIVE Dec(_)
Dec(n) ==
    IF n < 0 THEN <<"-">> \o Dec(0 - n)
    ELSE IF n < 10 THEN <<DigitChars[n + 1]>>
    ELSE Dec(n \div 10) \o <<DigitChars[(n % 10) + 1]>>

\* Date.prototype.toISOString: an injective text of the instant
toISOString(t) == <<"T">> \o Dec(t.v)

\* new Date(text).getTime(): the instant the text denotes, NaN when it denotes none
DateGetTime(text) == IF text.kind = "date" THEN Num(text.ms) ELSE NaN

\* truthiness of a string | null attribute value
Truthy(text) == text.kind \notin {"absent", "empty"}

---------------------------------------------------------------------------
(* Configuration and construction *)

ExpectedCount == 100
timeThresholdMinutes == 5
timeThreshold == timeThresholdMinutes * 60 * 1000
configArticleCount == 100

---------------------------------------------------------------------------
(* Timestamp extraction *)

LookupError == "Error: lookup failed"

\* elementHandle.$(selector): the handle's lookup may fail
Query(article, el) ==
    IF article.lookup = "queryThrows" THEN Throw(LookupError) ELSE Return(el)

\* page.evaluate(fn, element): the evaluation may fail
Evaluate(article, v) ==
    IF article.lookup = "evalThrows" THEN Throw(LookupError) ELSE Return(v)

\* the body of the try block: article.$('.age'), the absent check, page.evaluate
getArticleTimestampTry(article) ==
    LET ageElement == Query(article, article.age)
    IN  IF ageElement.threw THEN ageElement
        ELSE IF ~ageElement.value.found THEN Throw("Age element not found")
        ELSE LET ageText == Evaluate(article, ageElement.value.attr)
             IN  IF ageText.threw THEN ageText
                 ELSE Return(IF Truthy(ageText.value)
                             THEN DateGetTime(ageText.value) ELSE Null)

\* getArticleTimestamp with a catch that handles only its own 'not found' error
getArticleTimestampRethrows(article) ==
    LET r == getArticleTimestampTry(article)
    IN  IF r.threw /\ r.value = "Age element not found" THEN Return(Null) ELSE r

\* try { ... } catch { return null }
getArticleTimestamp(article) ==
    LET r == getArticleTimestampTry(article)
    IN  IF r.threw THEN Return(Null) ELSE r

---------------------------------------------------------------------------
(* Sorting validator: messages and loop body *)

InvalidInput == "Invalid input: articles must be a non-empty array"

\* CountMismatchMessage that prints the expected count where the found one goes
CountMismatchMessageExpected(found) ==
    <<"E","x","p","e","c","t","e","d"," ","1","0","0"," ","a","r","t","i","c","l","e","s",","," ","b","u","t"," ","f","o","u","n","d"," ">>
        \o Dec(100)

CountMismatchMessage(found) ==
    <<"E","x","p","e","c","t","e","d"," ","1","0","0"," ","a","r","t","i","c","l","e","s",","," ","b","u","t"," ","f","o","u","n","d"," ">>
        \o Dec(found)

SortedMessage ==
    <<"A","l","l"," ","a","r","t","i","c","l","e","s"," ","a","r","e"," ","c","o","r","r","e","c","t","l","y"," ","s","o","r","t","e","d">>

SortingErrorMessage(i, timestamp, prevTimestamp) ==
    <<"S","o","r","t","i","n","g"," ","e","r","r","o","r"," ","a","t"," ","i","n","d","e","x"," ">>
        \o Dec(i) \o <<":"," ">> \o toISOString(timestamp)
        \o <<" ","i","s"," ","n","e","w","e","r"," ","t","h","a","n"," ">>
        \o toISOString(prevTimestamp)

\* a >= b on numbers
JsGe(a, b) == JsGt(a, b) \/ (ToNumber(a).k = "num" /\ ToNumber(a) = ToNumber(b))

\* sortingStep that compares with >= : a tie is reported as a violation
sortingStepStrict(st, items, i) ==
    LET r == getArticleTimestamp(items[i + 1])
        timestamp == r.value
    IN  IF r.threw
        THEN [st EXCEPT !.done = TRUE, !.out = r]
        ELSE IF timestamp # Null /\ JsGe(timestamp, st.prevTimestamp)
        THEN [st EXCEPT !.done = TRUE, !.log = Append(@, timestamp),
                !.out = Return([isValid |-> FALSE, errorIndex |-> {i},
                                message |-> SortingErrorMessage(i, timestamp, st.prevTimestamp)])]
        ELSE [st EXCEPT !.log = Append(@, timestamp),
                !.prevTimestamp = IF timestamp # Null THEN timestamp ELSE @]

\* sortingStep without the null checks: null is compared and becomes the baseline
sortingStepNoNullCheck(st, items, i) ==
    LET r == getArticleTimestamp(items[i + 1])
        timestamp == r.value
    IN  IF r.threw
        THEN [st EXCEPT !.done = TRUE, !.out = r]
        ELSE IF JsGt(timestamp, st.prevTimestamp)
        THEN [st EXCEPT !.done = TRUE, !.log = Append(@, timestamp),
                !.out = Return([isValid |-> FALSE, errorIndex |-> {i},
                                message |-> SortingErrorMessage(i, ToNumber(timestamp),
                                                                ToNumber(st.prevTimestamp))])]
        ELSE [st EXCEPT !.log = Append(@, timestamp), !.prevTimestamp = timestamp]

\* one iteration of the for loop of validateSorting, at index i; st is the
\* loop's state: the outcome once it has returned, prevTimestamp, and the log
\* of the values extracted so far
\* sortingStep that compares in the opposite direction
sortingStepAscending(st, items, i) ==
    LET r == getArticleTimestamp(items[i + 1])
        timestamp == r.value
    IN  IF r.threw THEN [st EXCEPT !.done = TRUE, !.out = r]
        ELSE IF timestamp # Null /\ JsGt(st.prevTimestamp, timestamp)
        THEN [st EXCEPT !.done = TRUE, !.log = Append(@, timestamp),
                !.out = Return([isValid |-> FALSE, errorIndex |-> {i},
                                message |-> SortingErrorMessage(i, timestamp, st.prevTimestamp)])]
        ELSE [st EXCEPT !.log = Append(@, timestamp),
                !.prevTimestamp = IF timestamp # Null THEN timestamp ELSE @]

sortingStep(st, items, i) ==
    LET r == getArticleTimestamp(items[i + 1])
        timestamp == r.value
    IN  IF r.threw
        THEN [st EXCEPT !.done = TRUE, !.out = r]
        ELSE IF timestamp # Null /\ JsGt(timestamp, st.prevTimestamp)
        THEN [st EXCEPT !.done = TRUE, !.log = Append(@, timestamp),
                !.out = Return([isValid |-> FALSE, errorIndex |-> {i},
                                message |-> SortingErrorMessage(i, timestamp, st.prevTimestamp)])]
        ELSE [st EXCEPT !.log = Append(@, timestamp),
                !.prevTimestamp = IF timestamp # Null THEN timestamp ELSE @]

---------------------------------------------------------------------------
(* Freshness and uniqueness validators: loop bodies *)

\* el?.textContent || '' (and el?.href || ''): '' for a missing element
TextOr(el, text, default) == IF el.found /\ text # default THEN text ELSE default

\* await page.evaluate(fn, await article.$(selector))
ReadField(article, el, v) ==
    LET q == Query(article, el)
    IN  IF q.threw THEN q ELSE Evaluate(article, v)

\* accuracyStep that flags an article aged exactly the threshold
accuracyStepInclusive(st, items, i) ==
    LET r == getArticleTimestamp(items[i + 1])
        timestamp == r.value
    IN  IF r.threw
        THEN [st EXCEPT !.done = TRUE, !.out = r]
        ELSE IF timestamp # Null
                /\ JsGe(JsMinus(Num(st.now), timestamp), Num(timeThreshold))
        THEN [st EXCEPT !.log = Append(@, timestamp),
                !.inaccurateArticles = Append(@, [index |-> i, timestamp |-> timestamp])]
        ELSE [st EXCEPT !.log = Append(@, timestamp)]

\* accuracyStep without the test for an unknown timestamp
accuracyStepNoNullCheck(st, items, i) ==
    LET r == getArticleTimestamp(items[i + 1])
        timestamp == r.value
    IN  IF r.threw
        THEN [st EXCEPT !.done = TRUE, !.out = r]
        ELSE IF JsGt(JsMinus(Num(st.now), timestamp), Num(timeThreshold))
        THEN [st EXCEPT !.log = Append(@, timestamp),
                !.inaccurateArticles = Append(@, [index |-> i, timestamp |-> timestamp])]
        ELSE [st EXCEPT !.log = Append(@, timestamp)]

\* one iteration of the for loop of validateTimestampAccuracy, at index i
accuracyStep(st, items, i) ==
    LET r == getArticleTimestamp(items[i + 1])
        timestamp == r.value
    IN  IF r.threw
        THEN [st EXCEPT !.done = TRUE, !.out = r]
        ELSE IF timestamp # Null
                /\ JsGt(JsMinus(Num(st.now), timestamp), Num(timeThreshold))
        THEN [st EXCEPT !.log = Append(@, timestamp),
                !.inaccurateArticles = Append(@, [index |-> i, timestamp |-> timestamp])]
        ELSE [st EXCEPT !.log = Append(@, timestamp)]

\* uniquenessStep that remembers only the title it saw last
uniquenessStepLastOnly(st, items, i) ==
    LET title == ReadField(items[i + 1], items[i + 1].titlelink,
                           TextOr(items[i + 1].titlelink, items[i + 1].titlelink.text, ""))
    IN  IF title.threw
        THEN [st EXCEPT !.done = TRUE, !.out = title]
        ELSE IF title.value \in st.titles
        THEN [st EXCEPT !.duplicates = Append(@, [index |-> i, title |-> title.value])]
        ELSE [st EXCEPT !.titles = {title.value}]

\* uniquenessStep that passes over an article without a title
uniquenessStepSkipsEmpty(st, items, i) ==
    LET title == ReadField(items[i + 1], items[i + 1].titlelink,
                           TextOr(items[i + 1].titlelink, items[i + 1].titlelink.text, ""))
    IN  IF title.threw
        THEN [st EXCEPT !.done = TRUE, !.out = title]
        ELSE IF title.value = "" THEN st
        ELSE IF title.value \in st.titles
        THEN [st EXCEPT !.duplicates = Append(@, [index |-> i, title |-> title.value])]
        ELSE [st EXCEPT !.titles = @ \cup {title.value}]

\* one iteration of the for loop of validateUniqueness, at index i
uniquenessStep(st, items, i) ==
    LET title == ReadField(items[i + 1], items[i + 1].titlelink,
                           TextOr(items[i + 1].titlelink, items[i + 1].titlelink.text, ""))
    IN  IF title.threw
        THEN [st EXCEPT !.done = TRUE, !.out = title]
        ELSE IF title.value \in st.titles
        THEN [st EXCEPT !.duplicates = Append(@, [index |-> i, title |-> title.value])]
        ELSE [st EXCEPT !.titles = @ \cup {title.value}]

---------------------------------------------------------------------------
(* Loops *)

\* the body of the for loop of the named validator, at index i
LoopBody(validator, st, items, i) ==
    CASE validator = "sorting"    -> sortingStep(st, items, i)
      [] validator = "accuracy"   -> accuracyStep(st, items, i)
      [] validator = "uniqueness" -> uniquenessStep(st, items, i)

\* iterations lo..hi of the for loop of a validator, in index order, up to the
\* iteration that returns or throws (st.done)
RECURSIVE ForLoop(_, _, _, _, _)
ForLoop(validator, st, items, lo, hi) ==
    IF lo > hi THEN st
    ELSE IF lo = hi THEN (IF st.done THEN st ELSE LoopBody(validator, st, items, lo))
    ELSE LET mid == (lo + hi) \div 2
             left == ForLoop(validator, st, items, lo, mid)
         IN  IF left.done THEN left ELSE ForLoop(validator, left, items, mid + 1, hi)

---------------------------------------------------------------------------
(* Sorting validator *)

\* the scan of validateSorting and its result
sortingScan(items) ==
    LET st == ForLoop("sorting",
                      [done |-> FALSE, out |-> None, prevTimestamp |-> Infinity,
                       log |-> <<>>],
                      items, 0, Len(items) - 1)
    IN  IF st.done THEN [out |-> st.out, log |-> st.log]
        ELSE [out |-> Return([isValid |-> TRUE, errorIndex |-> {},
                              message |-> SortedMessage]),
              log |-> st.log]

\* validateSorting that scans before it looks at the count
validateSortingScanFirst(arg) ==
    IF ~arg.isArray \/ Len(arg.items) = 0
    THEN [out |-> Throw(InvalidInput), log |-> <<>>]
    ELSE LET scan == sortingScan(arg.items)
         IN  IF Len(arg.items) # ExpectedCount
             THEN [out |-> Return([isValid |-> FALSE, errorIndex |-> {},
                                   message |-> CountMismatchMessage(Len(arg.items))]),
                   log |-> scan.log]
             ELSE scan

\* validateSorting whose input check joins its two tests with && : an empty
\* array passes it
validateSortingAcceptsEmpty(arg) ==
    IF ~arg.isArray /\ Len(arg.items) = 0
    THEN [out |-> Throw(InvalidInput), log |-> <<>>]
    ELSE IF Len(arg.items) # ExpectedCount
    THEN [out |-> Return([isValid |-> FALSE, errorIndex |-> {},
                          message |-> CountMismatchMessage(Len(arg.items))]),
          log |-> <<>>]
    ELSE sortingScan(arg.items)

\* validateSorting whose count-mismatch result carries the errorIndex -1
validateSortingMismatchIndex(arg) ==
    IF ~arg.isArray \/ Len(arg.items) = 0
    THEN [out |-> Throw(InvalidInput), log |-> <<>>]
    ELSE IF Len(arg.items) # ExpectedCount
    THEN [out |-> Return([isValid |-> FALSE, errorIndex |-> {-1},
                          message |-> CountMismatchMessage(Len(arg.items))]),
          log |-> <<>>]
    ELSE sortingScan(arg.items)

validateSorting(arg) ==
    IF ~arg.isArray \/ Len(arg.items) = 0
    THEN [out |-> Throw(InvalidInput), log |-> <<>>]
    ELSE IF Len(arg.items) # ExpectedCount
    THEN [out |-> Return([isValid |-> FALSE, errorIndex |-> {},
                          message |-> CountMismatchMessage(Len(arg.items))]),
          log |-> <<>>]
    ELSE sortingScan(arg.items)

---------------------------------------------------------------------------
(* Content validator *)

IsDigit(c) == \E d \in 1..10 : DigitChars[d] = c
DigitVal(c) == (CHOOSE d \in 1..10 : DigitChars[d] = c) - 1

RECURSIVE TrimStart(_)
TrimStart(s) == IF s # <<>> /\ Head(s) = " " THEN TrimStart(Tail(s)) ELSE s

RECURSIVE DigitsValue(_, _)
DigitsValue(s, acc) ==
    IF s # <<>> /\ IsDigit(Head(s))
    THEN DigitsValue(Tail(s), acc * 10 + DigitVal(Head(s)))
    ELSE acc

\* parseInt(text, 10): leading blanks, a sign, then the longest run of digits
parseInt(text) ==
    LET t == TrimStart(text)
        signed == t # <<>> /\ Head(t) \in {"-", "+"}
        u == IF signed THEN Tail(t) ELSE t
    IN  IF u = <<>> \/ ~IsDigit(Head(u)) THEN NaN
        ELSE Num((IF signed /\ Head(t) = "-" THEN -1 ELSE 1) * DigitsValue(u, 0))

isNaN(n) == ToNumber(n).k = "nan"

\* extractArticleDetails that parses the score text without the '0' default
extractArticleDetailsNoDefault(article) ==
    LET title == ReadField(article, article.titlelink,
                           TextOr(article.titlelink, article.titlelink.text, ""))
        url == ReadField(article, article.titlelink,
                         TextOr(article.titlelink, article.titlelink.href, ""))
        author == ReadField(article, article.hnuser,
                            TextOr(article.hnuser, article.hnuser.text, ""))
        score == ReadField(article, article.score,
                           parseInt(IF article.score.found THEN article.score.text ELSE <<>>))
    IN  IF title.threw THEN title
        ELSE IF url.threw THEN url
        ELSE IF author.threw THEN author
        ELSE IF score.threw THEN score
        ELSE Return([title |-> title.value, url |-> url.value,
                     author |-> author.value, score |-> score.value])

extractArticleDetails(article) ==
    LET title == ReadField(article, article.titlelink,
                           TextOr(article.titlelink, article.titlelink.text, ""))
        url == ReadField(article, article.titlelink,
                         TextOr(article.titlelink, article.titlelink.href, ""))
        author == ReadField(article, article.hnuser,
                            TextOr(article.hnuser, article.hnuser.text, ""))
        score == ReadField(article, article.score,
                           parseInt(IF article.score.found /\ article.score.text # <<>>
                                    THEN article.score.text ELSE <<"0">>))
    IN  IF title.threw THEN title
        ELSE IF url.threw THEN url
        ELSE IF author.threw THEN author
        ELSE IF score.threw THEN score
        ELSE Return([title |-> title.value, url |-> url.value,
                     author |-> author.value, score |-> score.value])

\* isValidArticleContent that tests the score for truthiness
isValidArticleContentTruthyScore(details) ==
    /\ details.title # "" /\ details.url # "" /\ details.author # ""
    /\ ~isNaN(details.score) /\ details.score # Num(0)

isValidArticleContent(details) ==
    details.title # "" /\ details.url # "" /\ details.author # "" /\ ~isNaN(details.score)

validateArticleContent(article) ==
    LET details == extractArticleDetails(article)
    IN  IF details.threw THEN details
        ELSE Return([isValid |-> isValidArticleContent(details.value),
                     details |-> details.value])

\* Promise.all(articles.map(validateArticleContent)): the results in index
\* order, or the rejection of a validation that failed
validateAllContent(items) ==
    LET results == [j \in 1..Len(items) |-> validateArticleContent(items[j])]
    IN  IF \E j \in 1..Len(items) : results[j].threw
        THEN Throw(LookupError)
        ELSE Return([j \in 1..Len(items) |-> results[j].value])

---------------------------------------------------------------------------
(* Freshness validator *)

\* dateNow is the value of Date.now() at the call
validateTimestampAccuracy(arg, dateNow) ==
    IF ~arg.isArray THEN [out |-> Throw("TypeError"), log |-> <<>>]
    ELSE LET st == ForLoop("accuracy",
                           [done |-> FALSE, out |-> None, now |-> dateNow,
                            inaccurateArticles |-> <<>>, log |-> <<>>],
                           arg.items, 0, Len(arg.items) - 1)
         IN  IF st.done THEN [out |-> st.out, log |-> st.log]
             ELSE [out |-> Return([isAccurate |-> Len(st.inaccurateArticles) = 0,
                                   inaccurateArticles |-> st.inaccurateArticles]),
                   log |-> st.log]

---------------------------------------------------------------------------
(* Uniqueness validator *)

validateUniqueness(arg) ==
    IF ~arg.isArray THEN Throw("TypeError")
    ELSE LET st == ForLoop("uniqueness",
                           [done |-> FALSE, out |-> None, titles |-> {},
                            duplicates |-> <<>>],
                           arg.items, 0, Len(arg.items) - 1)
         IN  IF st.done THEN st.out
             ELSE Return([isUnique |-> Len(st.duplicates) = 0,
                          duplicates |-> st.duplicates])

---------------------------------------------------------------------------
(* Aggregate validation *)

\* fullValidationPromises that gives up on the other validators once the
\* sorting result is invalid
fullValidationPromisesAbort(arg, dateNow) ==
    LET sortingRun == validateSorting(arg)
        abort == ~sortingRun.out.threw /\ ~sortingRun.out.value.isValid
    IN  [sorting |-> sortingRun,
         content |-> IF ~arg.isArray THEN Throw("TypeError")
                     ELSE IF abort THEN Return(<<>>)
                     ELSE validateAllContent(arg.items),
         timestampAccuracy |->
             IF abort
             THEN [out |-> Return([isAccurate |-> TRUE, inaccurateArticles |-> <<>>]),
                   log |-> <<>>]
             ELSE validateTimestampAccuracy(arg, dateNow),
         uniqueness |-> IF abort THEN Return([isUnique |-> TRUE, duplicates |-> <<>>])
                        ELSE validateUniqueness(arg)]

\* the four promises handed to Promise.all, in the order they are created
fullValidationPromises(arg, dateNow) ==
    [sorting |-> validateSorting(arg),
     content |-> IF arg.isArray THEN validateAllContent(arg.items) ELSE Throw("TypeError"),
     timestampAccuracy |-> validateTimestampAccuracy(arg, dateNow),
     uniqueness |-> validateUniqueness(arg)]

\* performFullValidation whose verdict leaves the uniqueness result out
performFullValidationNoUniqueness(p) ==
    IF p.content.threw /\ p.content.value = "TypeError" THEN p.content
    ELSE IF p.sorting.out.threw THEN p.sorting.out
    ELSE IF p.content.threw THEN p.content
    ELSE IF p.timestampAccuracy.out.threw THEN p.timestampAccuracy.out
    ELSE IF p.uniqueness.threw THEN p.uniqueness
    ELSE Return([sorting |-> p.sorting.out.value,
                 content |-> p.content.value,
                 timestampAccuracy |-> p.timestampAccuracy.out.value,
                 uniqueness |-> p.uniqueness.value,
                 isFullyValid |->
                     /\ p.sorting.out.value.isValid
                     /\ \A j \in DOMAIN p.content.value : p.content.value[j].isValid
                     /\ p.timestampAccuracy.out.value.isAccurate])

\* await Promise.all([...]) and the result object; articles.map of a value
\* that is no array throws while the argument list is built
performFullValidation(p) ==
    IF p.content.threw /\ p.content.value = "TypeError" THEN p.content
    ELSE IF p.sorting.out.threw THEN p.sorting.out
    ELSE IF p.content.threw THEN p.content
    ELSE IF p.timestampAccuracy.out.threw THEN p.timestampAccuracy.out
    ELSE IF p.uniqueness.threw THEN p.uniqueness
    ELSE Return([sorting |-> p.sorting.out.value,
                 content |-> p.content.value,
                 timestampAccuracy |-> p.timestampAccuracy.out.value,
                 uniqueness |-> p.uniqueness.value,
                 isFullyValid |->
                     /\ p.sorting.out.value.isValid
                     /\ \A j \in DOMAIN p.content.value : p.content.value[j].isValid
                     /\ p.timestampAccuracy.out.value.isAccurate
                     /\ p.uniqueness.value.isUnique])

---------------------------------------------------------------------------
(* Collections *)

AgeKinds == {"newer", "newest", "older", "tie", "noAge", "noAttr", "emptyAttr",
             "garbage", "queryThrows", "evalThrows"}
ContentKinds == {"noTitle", "dupTitle", "badScore"}
FieldKinds == {"emptyTitle", "noUrl", "noAuthor", "noScore", "zeroScore"}
TitleKinds == {"base", "noTitle", "emptyTitle", "dupTitle"}
ItemKinds == {"base"} \cup AgeKinds \cup ContentKinds

Patterns == {"desc", "ties"}

\* timestamp of the article at index i of an undisturbed collection
BaseMs(pattern, i) == IF pattern = "desc" THEN T0 - i * StepMs ELSE T0

AgeAttr(pattern, kind, i) ==
    CASE kind = "newer"     -> [kind |-> "date", ms |-> BaseMs(pattern, i) + JumpMs]
      [] kind = "newest"    -> [kind |-> "date", ms |-> BaseMs(pattern, i) + 2 * JumpMs]
      [] kind = "older"     -> [kind |-> "date", ms |-> BaseMs(pattern, i) - JumpMs]
      [] kind = "tie"       -> [kind |-> "date", ms |-> BaseMs(pattern, i) + StepMs]
      [] kind = "epoch"     -> [kind |-> "date", ms |-> 0]
      [] kind = "almostTie" -> [kind |-> "date", ms |-> BaseMs(pattern, i) + StepMs - 1]
      [] kind = "noAttr"    -> [kind |-> "absent", ms |-> 0]
      [] kind = "emptyAttr" -> [kind |-> "empty", ms |-> 0]
      [] kind = "garbage"   -> [kind |-> "invalid", ms |-> 0]
      [] OTHER              -> [kind |-> "date", ms |-> BaseMs(pattern, i)]

Points == <<" ","p","o","i","n","t","s">>

Item(pattern, kind, i) ==
    [lookup |-> IF kind \in {"queryThrows", "evalThrows"} THEN kind ELSE "ok",
     age |-> [found |-> kind # "noAge", attr |-> AgeAttr(pattern, kind, i)],
     titlelink |-> [found |-> kind # "noTitle",
                    text |-> IF kind = "dupTitle" THEN "Story 0"
                             ELSE IF kind = "emptyTitle" THEN ""
                             ELSE "Story " \o ToString(i),
                    href |-> IF kind = "noUrl" THEN ""
                             ELSE "https://example.com/" \o ToString(i)],
     hnuser |-> [found |-> kind # "noAuthor", text |-> "user" \o ToString(i)],
     score |-> [found |-> kind # "noScore",
                text |-> IF kind = "badScore" THEN <<"n","/","a">>
                         ELSE IF kind = "zeroScore" THEN <<"0">> \o Points
                         ELSE Dec(i + 1) \o Points]]

\* a collection of n articles, those at the indices of DOMAIN over replaced
Collection(pattern, n, over) ==
    [isArray |-> TRUE,
     items |-> [j \in 1..n |->
                  Item(pattern, IF (j - 1) \in DOMAIN over THEN over[j - 1] ELSE "base", j - 1)]]

\* a value that is no array (null)
NotAnArray == [isArray |-> FALSE, items |-> <<>>]

\* the indices at which every kind of article is tried
Probes(n) == {0, 1, n \div 2 - 1, n \div 2, n - 2, n - 1} \cap (0..(n - 1))

EverywhereKinds == {"newer", "noAge", "garbage"}

SingleOverrides(n) ==
    {(p :> k) : p \in 0..(n - 1), k \in EverywhereKinds}
        \cup {(p :> k) : p \in Probes(n), k \in ItemKinds}

WindowKinds == {"base", "newer", "newest", "noAge", "garbage"}
WindowAnchors == {0, ExpectedCount \div 2 - 2}
Windows ==
    {(p :> a) @@ ((p + 1) :> b) @@ ((p + 2) :> c) :
        p \in WindowAnchors, a \in WindowKinds, b \in WindowKinds, c \in WindowKinds}

ShortKinds == {"base", "newer", "noAge", "garbage", "queryThrows", "dupTitle"}

ShortCollections ==
    UNION {{Collection("desc", n, f) : f \in [0..(n - 1) -> ShortKinds]} : n \in 0..MaxShort}

NearCollections ==
    UNION {{Collection("desc", n, (p :> k)) : p \in Probes(n), k \in ItemKinds} :
             n \in {ExpectedCount - 1, ExpectedCount + 1}}

FullCollections ==
    {Collection("desc", ExpectedCount, f) : f \in SingleOverrides(ExpectedCount) \cup Windows}
        \cup {Collection("ties", ExpectedCount, (p :> k)) :
                p \in Probes(ExpectedCount), k \in ItemKinds}

\* articles that lack one field, or whose score is zero
FieldCollections ==
    {Collection("desc", ExpectedCount, (p :> k)) :
        p \in Probes(ExpectedCount), k \in FieldKinds}

\* collections whose first TitleRun articles have, lack or repeat a title
TitleCollections ==
    {Collection("desc", n, f) :
        n \in {TitleRun, ExpectedCount}, f \in [0..(TitleRun - 1) -> TitleKinds]}

\* the article after the middle one a millisecond older than the middle one
\* (AgeCollections), and collections none of whose timestamps is known
AgeCollections ==
    {Collection("desc", ExpectedCount, ((ExpectedCount \div 2 + 1) :> "almostTie"))}
        \cup {Collection("desc", ExpectedCount, [p \in 0..(ExpectedCount - 1) |-> k]) :
                k \in {"noAge", "noAttr", "emptyAttr"}}

Inputs ==
    {NotAnArray} \cup ShortCollections \cup NearCollections \cup FullCollections
        \cup FieldCollections \cup TitleCollections \cup AgeCollections

\* undisturbed collections of the sizes a configuration may ask for
ConfiguredCounts == {ExpectedCount - 1, ExpectedCount, ExpectedCount + 1}
PlainInputs == {Collection("desc", n, <<>>) : n \in ConfiguredCounts}

\* the values Date.now() may return: every article fresh, or the article in
\* the middle aged exactly the threshold and the later ones older
Nows(n) == {T0 + StepMs, T0 - (n \div 2) * StepMs + timeThreshold}

\* no performFullValidation is running
NoTasks == [content |-> <<>>, accuracy |-> None, uniqueness |-> None, settled |-> <<>>]

---------------------------------------------------------------------------
(* The state machine *)

Init ==
    /\ \/ articles \in Inputs /\ articleCount = configArticleCount
       \/ articles \in PlainInputs /\ articleCount \in ConfiguredCounts
    /\ pc = "idle"
    /\ op = "none"
    /\ now = 0
    /\ sorting = None
    /\ sortingLog = <<>>
    /\ content = None
    /\ timestampAccuracy = None
    /\ accuracyLog = <<>>
    /\ uniqueness = None
    /\ full = None
    /\ clock = 0
    /\ tasks = NoTasks
    /\ views = <<>>
    /\ firstHundred = None
    /\ isSorted = None

\* a direct call of validateSorting(articles)
ValidateSorting ==
    /\ pc = "idle"
    /\ \E run \in {validateSorting(articles)} :
          /\ sorting' = run.out
          /\ sortingLog' = run.log
    /\ pc' = "done"
    /\ op' = "validateSorting"
    /\ UNCHANGED pageVars
    /\ UNCHANGED <<articles, articleCount, now, content, timestampAccuracy,
                   accuracyLog, uniqueness, full, clock, tasks>>

\* a direct call of validateTimestampAccuracy(articles)
ValidateTimestampAccuracy ==
    /\ pc = "idle"
    /\ \E dateNow \in Nows(ExpectedCount) :
          \E run \in {validateTimestampAccuracy(articles, dateNow)} :
              /\ clock' = dateNow
              /\ now' = dateNow
              /\ timestampAccuracy' = run.out
              /\ accuracyLog' = run.log
    /\ pc' = "done"
    /\ op' = "validateTimestampAccuracy"
    /\ UNCHANGED pageVars
    /\ UNCHANGED <<articles, articleCount, sorting, sortingLog, content,
                   uniqueness, full, tasks>>

\* a direct call of validateUniqueness(articles)
ValidateUniqueness ==
    /\ pc = "idle"
    /\ \E run \in {validateUniqueness(articles)} : uniqueness' = run
    /\ pc' = "done"
    /\ op' = "validateUniqueness"
    /\ UNCHANGED pageVars
    /\ UNCHANGED <<articles, articleCount, now, sorting, sortingLog, content,
                   timestampAccuracy, accuracyLog, full, clock, tasks>>

\* a call of performFullValidation(articles)
PerformFullValidation ==
    /\ pc = "idle"
    /\ \E dateNow \in Nows(ExpectedCount) :
          \E p \in {fullValidationPromises(articles, dateNow)} :
              /\ clock' = dateNow
              /\ now' = dateNow
              /\ sorting' = p.sorting.out
              /\ sortingLog' = p.sorting.log
              /\ content' = p.content
              /\ timestampAccuracy' = p.timestampAccuracy.out
              /\ accuracyLog' = p.timestampAccuracy.log
              /\ uniqueness' = p.uniqueness
              /\ full' = performFullValidation(p)
    /\ pc' = "done"
    /\ op' = "performFullValidation"
    /\ UNCHANGED pageVars
    /\ UNCHANGED <<articles, articleCount, tasks>>

Next ==
    \/ ValidateSorting
    \/ ValidateTimestampAccuracy
    \/ ValidateUniqueness
    \/ PerformFullValidation

Spec == Init /\ [][Next]_vars

---------------------------------------------------------------------------
(* performFullValidation, one awaited read at a time *)

\* longest collection of a step-by-step run
MaxConc == 2
\* how far the clock moves in one tick (ms), and how often it may tick
TickMs == 1
MaxTicks == 1

ConcKinds == {"noAge", "tie", "noTitle", "dupTitle", "badScore", "queryThrows"}

\* collections short of 100 articles, undisturbed or with one article replaced:
\* validateSorting settles at its length test, before any read
ConcInputs ==
    {NotAnArray}
        \cup {Collection("desc", n, <<>>) : n \in 0..MaxConc}
        \cup {Collection("desc", n, (p :> k)) :
                n \in 1..MaxConc, p \in 0..(MaxConc - 1), k \in ConcKinds}

\* Date.now() at the call: every article fresh, or the first one aged exactly
\* the threshold
ConcClocks == {T0 + StepMs, T0 + timeThreshold}

\* the validators awaited one after another, as the older performFullValidation
\* does
performFullValidationSequential(arg, dateNow) ==
    LET sortingResult == validateSorting(arg).out
        contentResults == validateAllContent(arg.items)
        accuracyResult == validateTimestampAccuracy(arg, dateNow).out
        uniquenessResult == validateUniqueness(arg)
    IN  IF sortingResult.threw THEN sortingResult
        ELSE IF contentResults.threw THEN contentResults
        ELSE IF accuracyResult.threw THEN accuracyResult
        ELSE IF uniquenessResult.threw THEN uniquenessResult
        ELSE Return([sorting |-> sortingResult.value,
                     content |-> contentResults.value,
                     timestampAccuracy |-> accuracyResult.value,
                     uniqueness |-> uniquenessResult.value,
                     isFullyValid |->
                         /\ sortingResult.value.isValid
                         /\ \A j \in DOMAIN contentResults.value :
                               contentResults.value[j].isValid
                         /\ accuracyResult.value.isAccurate
                         /\ uniquenessResult.value.isUnique])

\* the k-th awaited read of extractArticleDetails: title, url, author, score
FieldRead(article, k) ==
    CASE k = 0 -> ReadField(article, article.titlelink,
                            TextOr(article.titlelink, article.titlelink.text, ""))
      [] k = 1 -> ReadField(article, article.titlelink,
                            TextOr(article.titlelink, article.titlelink.href, ""))
      [] k = 2 -> ReadField(article, article.hnuser,
                            TextOr(article.hnuser, article.hnuser.text, ""))
      [] k = 3 -> ReadField(article, article.score,
                            parseInt(IF article.score.found /\ article.score.text # <<>>
                                     THEN article.score.text ELSE <<"0">>))

FieldCount == 4

\* what validateArticleContent returns once its four reads are done
ContentResult(task) ==
    LET details == [title |-> task.read[1], url |-> task.read[2],
                    author |-> task.read[3], score |-> task.read[4]]
    IN  [isValid |-> isValidArticleContent(details), details |-> details]

\* the tasks performFullValidation creates, each suspended at its first read
StartedTasks(items, dateNow) ==
    [content |-> [j \in 1..Len(items) |-> [pos |-> 0, read |-> <<>>, out |-> None]],
     accuracy |-> [i |-> 0,
                   st |-> [done |-> FALSE, out |-> None, now |-> dateNow,
                           inaccurateArticles |-> <<>>, log |-> <<>>]],
     uniqueness |-> [i |-> 0,
                     st |-> [done |-> FALSE, out |-> None, titles |-> {},
                             duplicates |-> <<>>]],
     settled |-> <<>>]

\* a task has rejected, and what it rejected with
Rejected(t) ==
    \/ \E j \in DOMAIN t.content : t.content[j].out.threw
    \/ t.accuracy.st.done
    \/ t.uniqueness.st.done

RejectionOf(t) ==
    IF \E j \in DOMAIN t.content : t.content[j].out.threw
    THEN t.content[CHOOSE j \in DOMAIN t.content : t.content[j].out.threw].out
    ELSE IF t.accuracy.st.done THEN t.accuracy.st.out
    ELSE t.uniqueness.st.out

\* every task has returned
Fulfilled(t) ==
    /\ \A j \in DOMAIN t.content : t.content[j].pos = FieldCount
    /\ t.accuracy.i = Len(t.content) /\ ~t.accuracy.st.done
    /\ t.uniqueness.i = Len(t.content) /\ ~t.uniqueness.st.done

\* SettledPromises whose content results are in the order in which the
\* validations returned
SettledPromisesAsReturned(t) ==
    LET IsContent(e) == e.task = "content"
        returned == SelectSeq(t.settled, IsContent)
    IN  [sorting |-> [out |-> sorting, log |-> sortingLog],
         content |-> Return([j \in DOMAIN returned |->
                                ContentResult(t.content[returned[j].index + 1])]),
         timestampAccuracy |->
             [out |-> Return([isAccurate |-> Len(t.accuracy.st.inaccurateArticles) = 0,
                              inaccurateArticles |-> t.accuracy.st.inaccurateArticles]),
              log |-> t.accuracy.st.log],
         uniqueness |-> Return([isUnique |-> Len(t.uniqueness.st.duplicates) = 0,
                                duplicates |-> t.uniqueness.st.duplicates])]

\* the four settled promises, in the order they were created
SettledPromises(t) ==
    [sorting |-> [out |-> sorting, log |-> sortingLog],
     content |-> Return([j \in DOMAIN t.content |-> ContentResult(t.content[j])]),
     timestampAccuracy |->
         [out |-> Return([isAccurate |-> Len(t.accuracy.st.inaccurateArticles) = 0,
                          inaccurateArticles |-> t.accuracy.st.inaccurateArticles]),
          log |-> t.accuracy.st.log],
     uniqueness |-> Return([isUnique |-> Len(t.uniqueness.st.duplicates) = 0,
                            duplicates |-> t.uniqueness.st.duplicates])]

\* the continuation of await Promise.all([...]) after a read has been handled
\* and the tasks are t: a rejection is thrown at once, the result is built
\* when the last task returns
Settle(t) ==
    /\ tasks' = t
    /\ IF Rejected(t)
       THEN /\ full' = RejectionOf(t)
            /\ pc' = "done"
            /\ UNCHANGED <<content, timestampAccuracy, accuracyLog, uniqueness>>
       ELSE IF Fulfilled(t)
       THEN \E p \in {SettledPromises(t)} :
              /\ full' = performFullValidation(p)
              /\ content' = p.content
              /\ timestampAccuracy' = p.timestampAccuracy.out
              /\ accuracyLog' = p.timestampAccuracy.log
              /\ uniqueness' = p.uniqueness
              /\ pc' = "done"
       ELSE /\ pc' = "running"
            /\ UNCHANGED <<full, content, timestampAccuracy, accuracyLog, uniqueness>>
    /\ UNCHANGED pageVars
    /\ UNCHANGED <<articles, articleCount, op, now, sorting, sortingLog, clock>>

ConcInit ==
    /\ articles \in ConcInputs
    /\ articleCount = configArticleCount
    /\ pc = "idle"
    /\ op = "none"
    /\ now = 0
    /\ sorting = None
    /\ sortingLog = <<>>
    /\ content = None
    /\ timestampAccuracy = None
    /\ accuracyLog = <<>>
    /\ uniqueness = None
    /\ full = None
    /\ clock \in ConcClocks
    /\ tasks = NoTasks
    /\ views = <<>>
    /\ firstHundred = None
    /\ isSorted = None

\* the call of performFullValidation(articles) up to its await: the four
\* promises are created in order, Date.now() is sampled on the way
StartFullValidation ==
    /\ pc = "idle"
    /\ op' = "performFullValidation"
    /\ \E run \in {validateSorting(articles)} :
          /\ sorting' = run.out
          /\ sortingLog' = run.log
          /\ IF ~articles.isArray
             THEN /\ full' = Throw("TypeError")
                  /\ pc' = "done"
                  /\ UNCHANGED <<now, tasks>>
             ELSE /\ now' = clock
                  /\ tasks' = StartedTasks(articles.items, clock)
                  /\ IF run.out.threw
                     THEN full' = run.out /\ pc' = "done"
                     ELSE full' = full /\ pc' = "running"
    /\ UNCHANGED pageVars
    /\ UNCHANGED <<articles, articleCount, content, timestampAccuracy, accuracyLog,
                   uniqueness, clock>>

\* ContentRead whose title read also enters the title into the set of titles
\* the uniqueness validator has seen
ContentReadSharesTitles(j) ==
    /\ pc = "running"
    /\ j \in DOMAIN tasks.content
    /\ tasks.content[j].pos < FieldCount
    /\ LET task == tasks.content[j]
           r == FieldRead(articles.items[j], task.pos)
           shared == IF task.pos = 0 /\ ~r.threw
                     THEN [tasks EXCEPT !.uniqueness.st.titles = @ \cup {r.value}]
                     ELSE tasks
       IN  IF r.threw
           THEN Settle([tasks EXCEPT !.content[j].out = r])
           ELSE Settle([shared EXCEPT
                   !.content[j].pos = @ + 1,
                   !.content[j].read = Append(@, r.value),
                   !.settled = IF task.pos + 1 = FieldCount
                               THEN Append(@, [task |-> "content", index |-> j - 1])
                               ELSE @])

\* validateArticleContent of the article at position j handles its next read
ContentRead(j) ==
    /\ pc = "running"
    /\ j \in DOMAIN tasks.content
    /\ tasks.content[j].pos < FieldCount
    /\ LET task == tasks.content[j]
           r == FieldRead(articles.items[j], task.pos)
       IN  IF r.threw
           THEN Settle([tasks EXCEPT !.content[j].out = r])
           ELSE Settle([tasks EXCEPT
                   !.content[j].pos = @ + 1,
                   !.content[j].read = Append(@, r.value),
                   !.settled = IF task.pos + 1 = FieldCount
                               THEN Append(@, [task |-> "content", index |-> j - 1])
                               ELSE @])

\* AccuracyRead that reads the clock again for every article
AccuracyReadResamples ==
    /\ pc = "running"
    /\ tasks.accuracy.i < Len(articles.items)
    /\ LET st == accuracyStep([tasks.accuracy.st EXCEPT !.now = clock],
                              articles.items, tasks.accuracy.i)
       IN  Settle([tasks EXCEPT
               !.accuracy = [i |-> @.i + 1, st |-> st],
               !.settled = IF ~st.done /\ tasks.accuracy.i + 1 = Len(articles.items)
                           THEN Append(@, [task |-> "accuracy", index |-> -1])
                           ELSE @])

\* validateTimestampAccuracy handles the timestamp of its next article
AccuracyRead ==
    /\ pc = "running"
    /\ tasks.accuracy.i < Len(articles.items)
    /\ LET st == accuracyStep(tasks.accuracy.st, articles.items, tasks.accuracy.i)
       IN  Settle([tasks EXCEPT
               !.accuracy = [i |-> @.i + 1, st |-> st],
               !.settled = IF ~st.done /\ tasks.accuracy.i + 1 = Len(articles.items)
                           THEN Append(@, [task |-> "accuracy", index |-> -1])
                           ELSE @])

\* validateUniqueness handles the title of its next article
UniquenessRead ==
    /\ pc = "running"
    /\ tasks.uniqueness.i < Len(articles.items)
    /\ LET st == uniquenessStep(tasks.uniqueness.st, articles.items, tasks.uniqueness.i)
       IN  Settle([tasks EXCEPT
               !.uniqueness = [i |-> @.i + 1, st |-> st],
               !.settled = IF ~st.done /\ tasks.uniqueness.i + 1 = Len(articles.items)
                           THEN Append(@, [task |-> "uniqueness", index |-> -1])
                           ELSE @])

\* time passes while reads are awaited
Tick ==
    /\ pc = "running"
    /\ clock < now + MaxTicks * TickMs
    /\ clock' = clock + TickMs
    /\ UNCHANGED pageVars
    /\ UNCHANGED <<articles, articleCount, pc, op, now, sorting, sortingLog, content,
                   timestampAccuracy, accuracyLog, uniqueness, full, tasks>>

ConcNext ==
    \/ StartFullValidation
    \/ \E j \in 1..MaxConc : ContentRead(j)
    \/ AccuracyRead
    \/ UniquenessRead
    \/ Tick

ConcSpec == ConcInit /\ [][ConcNext]_vars

---------------------------------------------------------------------------
(* HackerNewsPage and the suites that use it *)

\* a <= b on numbers: every comparison with NaN is false
JsLe(a, b) == JsGe(b, a)

\* the listing URLs of getFirstHundredArticles: the newest page and the pages
\* that start at ranks 31, 61 and 91
urls == <<1, 31, 61, 91>>

\* rows of one listing page, as the n parameters of the URLs space them
PageSize == urls[2] - urls[1]

\* the number of articles getFirstHundredArticles keeps
SliceEnd == 100

\* the callback of $$eval, for one row of a listing
ArticleData(row) ==
    [title |-> TextOr(row.titlelink, row.titlelink.text, ""),
     timestamp |-> IF row.age.found THEN DateGetTime(row.age.attr) ELSE Num(0)]

pageArticles(rows) == [j \in 1..Len(rows) |-> ArticleData(rows[j])]

\* allArticles after the pages 1..k have been visited
RECURSIVE allArticles(_, _)
allArticles(listing, k) ==
    IF k = 0 THEN <<>>
    ELSE allArticles(listing, k - 1) \o pageArticles(listing[k])

\* array.slice(0, end)
Slice(array, end) == SubSeq(array, 1, IF Len(array) < end THEN Len(array) ELSE end)

\* getFirstHundredArticles that puts each page in front of the earlier ones
RECURSIVE allArticlesPrepended(_, _)
allArticlesPrepended(listing, k) ==
    IF k = 0 THEN <<>>
    ELSE pageArticles(listing[k]) \o allArticlesPrepended(listing, k - 1)

getFirstHundredArticlesPrepends(listing) ==
    IF \E k \in 1..Len(urls) : Len(listing[k]) = 0
    THEN Throw("TimeoutError")
    ELSE Return(Slice(allArticlesPrepended(listing, Len(urls)), SliceEnd))

\* waitForSelector times out on a page without a row
getFirstHundredArticles(listing) ==
    IF \E k \in 1..Len(urls) : Len(listing[k]) = 0
    THEN Throw("TimeoutError")
    ELSE Return(Slice(allArticles(listing, Len(urls)), SliceEnd))

\* page.$$('.athing') on the page navigate() has opened
getArticles(listing) == [isArray |-> TRUE, items |-> listing[1]]

\* HackerNewsPage.validateSorting as the older loop: false at the first
\* timestamp greater than the one before it
pageValidateSortingLoop(list) ==
    \A j \in 1..Len(list) :
        ~JsGt(list[j].timestamp, IF j = 1 THEN Infinity ELSE list[j - 1].timestamp)

\* HackerNewsPage.validateSorting: articles.every(...)
pageValidateSorting(list) ==
    \A j \in 1..Len(list) :
        j = 1 \/ JsLe(list[j].timestamp, list[j - 1].timestamp)

\* the running check of the sorting test: prevTimestamp starts at Infinity,
\* every timestamp is expected to be <= prevTimestamp and then becomes it
runningCheck(list) ==
    \A j \in 1..Len(list) :
        JsLe(list[j].timestamp, IF j = 1 THEN Infinity ELSE list[j - 1].timestamp)

\* the kinds of row tried at every rank, and those tried at the probes
RowKinds == {"newer", "noAge", "garbage", "tie"}
ProbeRowKinds == RowKinds \cup {"older", "noAttr", "emptyAttr", "epoch", "noTitle", "dupTitle"}

RowCount == Len(urls) * PageSize

\* the rows of the four pages: rank r is row ((r - 1) % PageSize) + 1 of page
\* ((r - 1) \div PageSize) + 1
Listing(pattern, over) ==
    [k \in 1..Len(urls) |->
        [j \in 1..PageSize |->
            LET i == (k - 1) * PageSize + j - 1
            IN  Item(pattern, IF i \in DOMAIN over THEN over[i] ELSE "base", i)]]

Listings ==
    {Listing("desc", <<>>), Listing("ties", <<>>)}
        \cup {Listing("desc", (i :> kind)) : i \in 0..(RowCount - 1), kind \in RowKinds}
        \cup {Listing(pattern, (i :> kind)) :
                pattern \in Patterns, i \in Probes(SliceEnd) \cup Probes(PageSize),
                kind \in ProbeRowKinds}
        \cup {Listing("desc", (i :> a) @@ ((i + 1) :> b)) :
                i \in {0, PageSize - 1}, a \in {"noAge", "epoch"}, b \in {"noAge", "epoch"}}

PageInit ==
    /\ views \in Listings
    /\ firstHundred = None
    /\ isSorted = None
    /\ articles = NotAnArray
    /\ articleCount = configArticleCount
    /\ pc = "idle"
    /\ op = "none"
    /\ now = 0
    /\ sorting = None
    /\ sortingLog = <<>>
    /\ content = None
    /\ timestampAccuracy = None
    /\ accuracyLog = <<>>
    /\ uniqueness = None
    /\ full = None
    /\ clock = 0
    /\ tasks = NoTasks

\* the sorting test, first half: const articles = await getFirstHundredArticles()
GetFirstHundredArticles ==
    /\ pc = "idle"
    /\ firstHundred' = getFirstHundredArticles(views)
    /\ pc' = "listed"
    /\ op' = "getFirstHundredArticles"
    /\ UNCHANGED <<articles, articleCount, now, sorting, sortingLog, content,
                   timestampAccuracy, accuracyLog, uniqueness, full, clock, tasks,
                   views, isSorted>>

\* the sorting test, second half: hackerNewsPage.validateSorting(articles)
PageValidateSorting ==
    /\ pc = "listed"
    /\ ~firstHundred.threw
    /\ isSorted' = Return(pageValidateSorting(firstHundred.value))
    /\ pc' = "done"
    /\ op' = "pageValidateSorting"
    /\ UNCHANGED <<articles, articleCount, now, sorting, sortingLog, content,
                   timestampAccuracy, accuracyLog, uniqueness, full, clock, tasks,
                   views, firstHundred>>

\* the step 'Validate sorting and perform full validation of first 100
\* articles' of the main suite, after navigate()
ValidateArticleSorting ==
    /\ pc = "idle"
    /\ \E dateNow \in Nows(ExpectedCount) :
          \E p \in {fullValidationPromises(getArticles(views), dateNow)} :
              /\ articles' = getArticles(views)
              /\ clock' = dateNow
              /\ now' = dateNow
              /\ sorting' = p.sorting.out
              /\ sortingLog' = p.sorting.log
              /\ content' = p.content
              /\ timestampAccuracy' = p.timestampAccuracy.out
              /\ accuracyLog' = p.timestampAccuracy.log
              /\ uniqueness' = p.uniqueness
              /\ full' = performFullValidation(p)
    /\ pc' = "done"
    /\ op' = "validateArticleSorting"
    /\ UNCHANGED <<articleCount, tasks, views, firstHundred, isSorted>>

PageNext ==
    \/ GetFirstHundredArticles
    \/ PageValidateSorting
    \/ ValidateArticleSorting

PageSpec == PageInit /\ [][PageNext]_vars

---------------------------------------------------------------------------
(* What the properties speak about *)

Items == articles.items
N == Len(Items)

SortingCalled == pc = "done" /\ op = "validateSorting"
AccuracyCalled == pc = "done" /\ op = "validateTimestampAccuracy"
UniquenessCalled == pc = "done" /\ op = "validateUniqueness"
FullCalled == pc = "done" /\ op = "performFullValidation"
FullReturned == FullCalled /\ ~full.threw

\* an article whose timestamp is known: its lookups succeed, it has an age
\* element, and the time attribute of that element denotes an instant
Known(a) == a.lookup = "ok" /\ a.age.found /\ a.age.attr.kind = "date"
Ms(a) == a.age.attr.ms

\* an article whose timestamp is unknown although its lookups succeed: the age
\* element or its attribute is absent, or the attribute does not parse
Unknown(a) == a.lookup = "ok" /\ ~Known(a)
Unparseable(a) == a.lookup = "ok" /\ a.age.found /\ a.age.attr.kind = "invalid"

LookupFails(a) == a.lookup # "ok"

AllKnown == \A j \in 1..N : Known(Items[j])
NonIncreasing == \A j \in 2..N : Ms(Items[j]) <= Ms(Items[j - 1])

\* position j holds a known timestamp strictly greater than the most recent
\* known timestamp before it
IsViolation(j) ==
    /\ Known(Items[j])
    /\ \E m \in 1..(j - 1) :
          /\ Known(Items[m])
          /\ \A q \in (m + 1)..(j - 1) : ~Known(Items[q])
          /\ Ms(Items[j]) > Ms(Items[m])

\* the article at position p is the only one with an unknown timestamp and the
\* others are in non-increasing order
OneUnknownAt(p) ==
    /\ Unknown(Items[p])
    /\ \A j \in (1..N) \ {p} : Known(Items[j])
    /\ \A j \in (2..N) \ {p, p + 1} : Ms(Items[j]) <= Ms(Items[j - 1])
    /\ (1 < p /\ p < N) => Ms(Items[p + 1]) <= Ms(Items[p - 1])

\* text contains part as a contiguous piece
Contains(text, part) ==
    \E k \in 0..(Len(text) - Len(part)) : SubSeq(text, k + 1, k + Len(part)) = part

\* the collection with every article whose lookups fail replaced by one that
\* has no age element
AsUnknown(arg) ==
    [isArray |-> arg.isArray,
     items |-> [j \in 1..Len(arg.items) |->
                  IF LookupFails(arg.items[j])
                  THEN [arg.items[j] EXCEPT !.lookup = "ok", !.age.found = FALSE]
                  ELSE arg.items[j]]]

TitleOf(a) == IF a.titlelink.found THEN a.titlelink.text ELSE ""
Stale(a) == Known(a) /\ now - Ms(a) > timeThreshold
IndexSet(list) == {list[j].index : j \in 1..Len(list)}

---------------------------------------------------------------------------
(* Properties *)

\* C1: for a collection of exactly 100 articles whose timestamps are all
\* known, validateSorting returns isValid = true if and only if every
\* timestamp is less than or equal to the one before it.
C1_SortingMonotone ==
    (SortingCalled /\ articles.isArray /\ N = ExpectedCount /\ AllKnown)
        => (~sorting.threw /\ (sorting.value.isValid <=> NonIncreasing))

C1_Witness ==
    /\ SortingCalled /\ articles.isArray /\ N = ExpectedCount /\ AllKnown
    /\ ~NonIncreasing
    /\ ~sorting.threw /\ ~sorting.value.isValid

\* C2: when validateSorting reports an errorIndex, it is the first violation:
\* the smallest index whose timestamp is known and strictly greater than the
\* most recent known timestamp before it, and the scan has stopped there.
C2_FirstViolation ==
    (SortingCalled /\ ~sorting.threw /\ sorting.value.errorIndex # {})
        => \E j \in 1..N :
              /\ IsViolation(j)
              /\ \A q \in 1..(j - 1) : ~IsViolation(q)
              /\ sorting.value.errorIndex = {j - 1}
              /\ Len(sortingLog) = j

\* C3: validateSorting on a non-empty collection of a size other than 100
\* extracts no timestamp and returns isValid = false with a message that
\* carries the expected and the found count.
C3_ShortCircuit ==
    (SortingCalled /\ articles.isArray /\ N # 0 /\ N # ExpectedCount)
        => /\ ~sorting.threw
           /\ Len(sortingLog) = 0
           /\ ~sorting.value.isValid
           /\ sorting.value.message =
                 <<"E","x","p","e","c","t","e","d"," ">> \o Dec(ExpectedCount)
                    \o <<" ","a","r","t","i","c","l","e","s",","," ","b","u","t"," ","f","o","u","n","d"," ">>
                    \o Dec(N)

C3_Witness ==
    /\ SortingCalled /\ articles.isArray /\ N = ExpectedCount - 1
    /\ ~sorting.threw /\ ~sorting.value.isValid /\ Len(sortingLog) = 0

\* C4 as stated: for 99 articles the sorting result returned by
\* performFullValidation has isValid = false and a message that contains the
\* text "Expected 100, but found 99".
C4_Original ==
    (FullReturned /\ N = 99)
        => /\ ~full.value.sorting.isValid
           /\ Contains(full.value.sorting.message,
                       <<"E","x","p","e","c","t","e","d"," ","1","0","0",","," ","b","u","t"," ","f","o","u","n","d"," ","9","9">>)

\* C4 as amended: for 99 articles the sorting result returned by
\* performFullValidation has isValid = false and a message that contains the
\* text "Expected 100 articles, but found 99".
C4_MismatchMessage ==
    (FullReturned /\ N = 99)
        => /\ ~full.value.sorting.isValid
           /\ Contains(full.value.sorting.message,
                       <<"E","x","p","e","c","t","e","d"," ","1","0","0"," ","a","r","t","i","c","l","e","s",","," ","b","u","t"," ","f","o","u","n","d"," ","9","9">>)

C4_Witness ==
    FullReturned /\ N = 99 /\ ~full.value.sorting.isValid

\* C5: replacing one article of a correctly sorted collection of 100 by an
\* article whose timestamp is unknown (age element absent, attribute absent,
\* attribute unparseable) leaves the result of validateSorting at
\* isValid = true.
C5_UnknownSkipped ==
    (SortingCalled /\ articles.isArray /\ N = ExpectedCount
        /\ \E p \in 1..N : OneUnknownAt(p))
        => (~sorting.threw /\ sorting.value.isValid)

C5_Witness ==
    /\ SortingCalled /\ articles.isArray /\ N = ExpectedCount
    /\ \E p \in 2..(N - 1) : OneUnknownAt(p) /\ ~Items[p].age.found
    /\ ~sorting.threw /\ sorting.value.isValid

\* C6: the timestamp extractor returns null when the age element is absent,
\* when the time attribute is absent and when the attribute does not parse as
\* a date, and returns an instant only when the attribute parses.
C6_ExtractorNull ==
    AccuracyCalled
        => \A j \in 1..Len(accuracyLog) :
              IF Known(Items[j]) THEN accuracyLog[j] = Num(Ms(Items[j]))
              ELSE accuracyLog[j] = Null

\* C7: a lookup error raised while an article's timestamp is extracted never
\* leaves validateSorting or validateTimestampAccuracy: the article counts as
\* one with an unknown timestamp and the validator goes on with the others.
C7_LookupErrorCaught ==
    (pc = "done" /\ articles.isArray /\ \E j \in 1..N : LookupFails(Items[j]))
        => /\ SortingCalled =>
                /\ ~sorting.threw
                /\ \A j \in 1..Len(sortingLog) :
                      LookupFails(Items[j]) => sortingLog[j] = Null
                /\ N = ExpectedCount =>
                      Len(sortingLog) = IF sorting.value.isValid THEN N
                                        ELSE 1 + CHOOSE e \in sorting.value.errorIndex : TRUE
                /\ sorting = validateSorting(AsUnknown(articles)).out
           /\ AccuracyCalled =>
                /\ ~timestampAccuracy.threw
                /\ Len(accuracyLog) = N
                /\ \A j \in 1..N : LookupFails(Items[j]) => accuracyLog[j] = Null
                /\ timestampAccuracy = validateTimestampAccuracy(AsUnknown(articles), now).out

C7_Witness ==
    /\ SortingCalled /\ articles.isArray /\ N = ExpectedCount
    /\ \E j \in 2..(N - 1) : Items[j].lookup = "evalThrows"
    /\ ~sorting.threw /\ Len(sortingLog) = N

\* C8: validateSorting throws the invalid-input error, and returns no result,
\* when its argument is an empty array or no array.
C8_InvalidInput ==
    (SortingCalled /\ (~articles.isArray \/ N = 0))
        => (sorting.threw /\ sorting.value = InvalidInput)

C8_Witness ==
    SortingCalled /\ articles.isArray /\ N = 0 /\ sorting.threw

\* C9: the count validateSorting requires is the configured article count: a
\* collection of exactly that many articles is scanned for order and a
\* collection of any other size gets the count-mismatch result.
C9_ConfiguredCount ==
    (SortingCalled /\ articles.isArray /\ N # 0)
        => /\ ~sorting.threw
           /\ IF N = articleCount
              THEN Len(sortingLog) = N \/ sorting.value.errorIndex # {}
              ELSE ~sorting.value.isValid /\ Len(sortingLog) = 0

\* C10: whenever the sorting result is invalid, the result returned by
\* performFullValidation still has one content result per article, and
\* freshness and uniqueness results computed over every article.
C10_NoEarlyAbort ==
    (FullReturned /\ ~full.value.sorting.isValid)
        => /\ Len(full.value.content) = N
           /\ \A j \in 1..N : full.value.content[j].details.title = TitleOf(Items[j])
           /\ IndexSet(full.value.timestampAccuracy.inaccurateArticles)
                 = {j - 1 : j \in {m \in 1..N : Stale(Items[m])}}
           /\ IndexSet(full.value.uniqueness.duplicates)
                 = {j - 1 : j \in {m \in 1..N :
                                     \E q \in 1..(m - 1) : TitleOf(Items[q]) = TitleOf(Items[m])}}

C10_Witness ==
    /\ FullReturned /\ N = ExpectedCount - 1
    /\ ~full.value.sorting.isValid
    /\ Len(full.value.content) = N
    /\ N - 1 \in IndexSet(full.value.uniqueness.duplicates)
    /\ N - 1 \in IndexSet(full.value.timestampAccuracy.inaccurateArticles)

\* C11: in every result performFullValidation returns, isFullyValid is the
\* conjunction of sorting.isValid, every content[i].isValid,
\* timestampAccuracy.isAccurate and uniqueness.isUnique.
C11_FullyValidConjunction ==
    FullReturned =>
        (full.value.isFullyValid <=>
            (/\ full.value.sorting.isValid
             /\ \A j \in 1..Len(full.value.content) : full.value.content[j].isValid
             /\ full.value.timestampAccuracy.isAccurate
             /\ full.value.uniqueness.isUnique))

\* only the uniqueness result stands between the collection and a full pass
C11_Witness ==
    /\ FullReturned /\ N = ExpectedCount
    /\ full.value.sorting.isValid
    /\ \A j \in 1..Len(full.value.content) : full.value.content[j].isValid
    /\ full.value.timestampAccuracy.isAccurate
    /\ ~full.value.uniqueness.isUnique
    /\ ~full.value.isFullyValid

\* C12: an article whose fields cannot be read (a lookup on it fails) never
\* aborts the pass: performFullValidation still returns a result with one
\* content entry per article, the unreadable article's entry being invalid.
C12_UnreadableItemDegrades ==
    (FullCalled /\ articles.isArray /\ N > 0
        /\ \E j \in 1..N : LookupFails(Items[j]))
        => (/\ ~full.threw
            /\ Len(full.value.content) = N
            /\ \A j \in 1..N : LookupFails(Items[j]) => ~full.value.content[j].isValid)

\* C14: validateArticleContent reports isValid = true exactly when the
\* extracted title, url and author are non-empty and the extracted score is a
\* number (not NaN); a score of zero is valid, an empty title alone is not.
C14_ContentValid ==
    FullReturned =>
        \A j \in 1..Len(full.value.content) :
            LET details == full.value.content[j].details
            IN  full.value.content[j].isValid <=>
                    (/\ details.title # "" /\ details.url # "" /\ details.author # ""
                     /\ details.score.k = "num")

\* an article whose score text is "0 points" is valid
C14_Witness ==
    /\ FullReturned
    /\ \E j \in 1..Len(full.value.content) :
          /\ Items[j].score.found /\ Items[j].score.text = <<"0">> \o Points
          /\ full.value.content[j].details.score = Num(0)
          /\ full.value.content[j].isValid

\* an article whose title is empty and whose other fields are present is
\* invalid
C14_EmptyTitleWitness ==
    /\ FullReturned
    /\ \E j \in 1..Len(full.value.content) :
          LET details == full.value.content[j].details
          IN  /\ details.title = "" /\ Items[j].titlelink.found
              /\ details.url # "" /\ details.author # "" /\ details.score.k = "num"
              /\ ~full.value.content[j].isValid

\* the fields of the article at position j whose element is missing have the
\* given defaults in the j-th content entry
MissingFieldDefaults(j, scoreDefault) ==
    LET details == full.value.content[j].details
    IN  /\ ~Items[j].titlelink.found => (details.title = "" /\ details.url = "")
        /\ ~Items[j].hnuser.found => details.author = ""
        /\ ~Items[j].score.found => details.score = scoreDefault

\* C15 as stated: a missing field element yields '' for title, url and author
\* and NaN for score, and never raises.
C15_Original ==
    (FullCalled /\ articles.isArray /\ N > 0 /\ \A j \in 1..N : ~LookupFails(Items[j]))
        => (~full.threw /\ \A j \in 1..N : MissingFieldDefaults(j, NaN))

\* C15: a missing field element yields '' for title, url and author and 0 for
\* score (the score text defaults to '0' before it is parsed), and never
\* raises.
C15_MissingFieldDefaults ==
    (FullCalled /\ articles.isArray /\ N > 0 /\ \A j \in 1..N : ~LookupFails(Items[j]))
        => (~full.threw /\ \A j \in 1..N : MissingFieldDefaults(j, Num(0)))

\* an article without a score element gets the score 0
C15_Witness ==
    /\ FullReturned
    /\ \E j \in 1..N :
          /\ ~Items[j].score.found
          /\ full.value.content[j].details.score = Num(0)
          /\ full.value.content[j].isValid

\* age of the article a at the sampled current time, in milliseconds
Age(a) == now - Ms(a)

\* C16: validateTimestampAccuracy flags an article if and only if its
\* timestamp is known and (now - timestamp) is strictly greater than the
\* threshold, so an age of exactly the threshold is not flagged and one of a
\* millisecond more is; each entry carries the article's index and timestamp,
\* and isAccurate is true exactly when nothing is flagged.
C16_StaleFlagged ==
    (AccuracyCalled /\ articles.isArray) =>
        /\ ~timestampAccuracy.threw
        /\ LET list == timestampAccuracy.value.inaccurateArticles
           IN  /\ IndexSet(list) = {j - 1 : j \in {m \in 1..N : Stale(Items[m])}}
               /\ \A e \in 1..Len(list) :
                     list[e].timestamp = Num(Ms(Items[list[e].index + 1]))
               /\ \A j \in 1..N :
                     /\ (Known(Items[j]) /\ Age(Items[j]) = timeThreshold)
                            => (j - 1) \notin IndexSet(list)
                     /\ (Known(Items[j]) /\ Age(Items[j]) = timeThreshold + 1)
                            => (j - 1) \in IndexSet(list)
               /\ timestampAccuracy.value.isAccurate <=> (list = <<>>)

\* one article aged exactly the threshold is passed and the next, a
\* millisecond older, is flagged
C16_Witness ==
    /\ AccuracyCalled /\ articles.isArray /\ ~timestampAccuracy.threw
    /\ \E j \in 1..(N - 1) :
          /\ Known(Items[j]) /\ Age(Items[j]) = timeThreshold
          /\ Known(Items[j + 1]) /\ Age(Items[j + 1]) = timeThreshold + 1
          /\ (j - 1) \notin IndexSet(timestampAccuracy.value.inaccurateArticles)
          /\ j \in IndexSet(timestampAccuracy.value.inaccurateArticles)
          /\ ~timestampAccuracy.value.isAccurate

\* C17: an article whose timestamp is unknown is never in the inaccurate
\* list, and a collection in which no timestamp is known is accurate.
C17_UnknownNeverStale ==
    (AccuracyCalled /\ articles.isArray) =>
        /\ ~timestampAccuracy.threw
        /\ \A j \in 1..N :
              ~Known(Items[j])
                  => (j - 1) \notin IndexSet(timestampAccuracy.value.inaccurateArticles)
        /\ (\A j \in 1..N : ~Known(Items[j])) => timestampAccuracy.value.isAccurate

\* a hundred articles without a known timestamp are accurate
C17_Witness ==
    /\ AccuracyCalled /\ articles.isArray /\ N = ExpectedCount
    /\ \A j \in 1..N : ~Known(Items[j])
    /\ ~timestampAccuracy.threw
    /\ timestampAccuracy.value.isAccurate
    /\ timestampAccuracy.value.inaccurateArticles = <<>>

\* validateUniqueness was called on an array all of whose articles can be read
AllReadable ==
    UniquenessCalled /\ articles.isArray /\ \A j \in 1..N : ~LookupFails(Items[j])

\* positions whose title equals the title of an earlier position
Repeats == {j \in 1..N : \E m \in 1..(j - 1) : TitleOf(Items[m]) = TitleOf(Items[j])}

\* C18: validateUniqueness reports index i as a duplicate if and only if the
\* title of article i equals the title of an earlier article; a first
\* occurrence is never reported, the entries are in increasing index order and
\* carry the title, and isUnique is true exactly when the list is empty.
C18_DuplicatesByTitle ==
    AllReadable =>
        /\ ~uniqueness.threw
        /\ LET list == uniqueness.value.duplicates
           IN  /\ IndexSet(list) = {j - 1 : j \in Repeats}
               /\ \A e \in 1..Len(list) :
                     /\ list[e].title = TitleOf(Items[list[e].index + 1])
                     /\ e > 1 => list[e - 1].index < list[e].index
               /\ uniqueness.value.isUnique <=> (list = <<>>)

\* the titles A, B, A give the one duplicate {index 2, title A}
C18_Witness ==
    /\ AllReadable /\ N = 3
    /\ TitleOf(Items[1]) # "" /\ TitleOf(Items[2]) # TitleOf(Items[1])
    /\ TitleOf(Items[3]) = TitleOf(Items[1])
    /\ ~uniqueness.threw
    /\ uniqueness.value.duplicates = <<[index |-> 2, title |-> TitleOf(Items[1])]>>
    /\ ~uniqueness.value.isUnique

\* positions of the articles without a title
Untitled == {j \in 1..N : TitleOf(Items[j]) = ""}

\* C19: the empty title is a key like any other: when two or more articles
\* have no title (no title element, or one with empty text), the second and
\* every later one are reported as duplicates with title '' and the first is
\* not.
C19_EmptyTitleIsKey ==
    (AllReadable /\ Cardinality(Untitled) >= 2) =>
        /\ ~uniqueness.threw
        /\ LET list == uniqueness.value.duplicates
               first == CHOOSE j \in Untitled : \A m \in Untitled : j <= m
           IN  {list[e].index : e \in {x \in 1..Len(list) : list[x].title = ""}}
                   = {j - 1 : j \in Untitled \ {first}}

\* three articles without a title, one of them with an empty title element
\* and one with none: the second and the third are duplicates
C19_Witness ==
    /\ AllReadable /\ N = ExpectedCount /\ Untitled = {1, 2, 3}
    /\ \E j \in Untitled : Items[j].titlelink.found
    /\ \E j \in Untitled : ~Items[j].titlelink.found
    /\ ~uniqueness.threw
    /\ uniqueness.value.duplicates
          = <<[index |-> 1, title |-> ""], [index |-> 2, title |-> ""]>>

\* a hundred articles with known timestamps, each one second older than the
\* one before it
OneSecondApart ==
    /\ articles.isArray /\ N = ExpectedCount /\ AllKnown
    /\ \A j \in 2..N : Ms(Items[j - 1]) - Ms(Items[j]) = 1000

\* the article has a title, a url and an author, and its score, if it has
\* one, begins with a number
Complete(a) ==
    /\ a.titlelink.found /\ a.titlelink.text # "" /\ a.titlelink.href # ""
    /\ a.hnuser.found /\ a.hnuser.text # ""
    /\ (a.score.found /\ a.score.text # <<>>) => parseInt(a.score.text) # NaN

\* C20 as stated: for 100 articles with strictly decreasing timestamps one
\* second apart performFullValidation returns isFullyValid = true.
C20_Original ==
    (FullCalled /\ OneSecondApart) => (~full.threw /\ full.value.isFullyValid)

\* C20: for 100 articles with strictly decreasing timestamps one second
\* apart, none of them older than the threshold at the current time, with
\* complete content and pairwise different titles, performFullValidation
\* returns isFullyValid = true.
C20_ScenarioFullyValid ==
    (/\ FullCalled /\ OneSecondApart
     /\ \A j \in 1..N : Age(Items[j]) <= timeThreshold /\ Complete(Items[j])
     /\ Repeats = {})
        => (~full.threw /\ full.value.isFullyValid)

C20_Witness ==
    /\ FullCalled /\ OneSecondApart
    /\ \A j \in 1..N : Age(Items[j]) <= timeThreshold /\ Complete(Items[j])
    /\ Repeats = {}
    /\ ~full.threw /\ full.value.isFullyValid
    /\ full.value.sorting.isValid /\ Len(full.value.content) = ExpectedCount

\* a step-by-step performFullValidation has settled
ConcDone == pc = "done" /\ op = "performFullValidation"

\* the order in which the tasks returned is the reverse of the order in which
\* they were created
ReverseOrder ==
    tasks.settled = <<[task |-> "uniqueness", index |-> -1],
                      [task |-> "accuracy", index |-> -1],
                      [task |-> "content", index |-> 1],
                      [task |-> "content", index |-> 0]>>

C25_BaselineKept ==
    (SortingCalled /\ articles.isArray /\ N = ExpectedCount) =>
        \A j \in 3..N :
            (/\ Unknown(Items[j - 1])
             /\ IsViolation(j)
             /\ \A q \in 1..(j - 1) : ~IsViolation(q))
                => (/\ ~sorting.threw
                    /\ ~sorting.value.isValid
                    /\ sorting.value.errorIndex = {j - 1})

\* the same, for unknown timestamps other than an unparseable attribute
C25_BaselineKeptWhenNull ==
    (SortingCalled /\ articles.isArray /\ N = ExpectedCount
        /\ \A q \in 1..N : ~Unparseable(Items[q])) =>
        \A j \in 3..N :
            (/\ Unknown(Items[j - 1])
             /\ IsViolation(j)
             /\ \A q \in 1..(j - 1) : ~IsViolation(q))
                => (/\ ~sorting.threw
                    /\ ~sorting.value.isValid
                    /\ sorting.value.errorIndex = {j - 1})

\* C26: ties are valid: in a collection of 100 articles, an article whose
\* known timestamp equals the last known timestamp before it is never the
\* one validateSorting reports, and 100 equal timestamps are valid.
C26_TiesValid ==
    (SortingCalled /\ articles.isArray /\ N = ExpectedCount) =>
        /\ ~sorting.threw
        /\ \A j \in 2..N :
              (/\ Known(Items[j])
               /\ \E m \in 1..(j - 1) :
                     /\ Known(Items[m])
                     /\ \A q \in (m + 1)..(j - 1) : ~Known(Items[q])
                     /\ Ms(Items[m]) = Ms(Items[j]))
                  => sorting.value.errorIndex # {j - 1}
        /\ (AllKnown /\ \A j \in 2..N : Ms(Items[j]) = Ms(Items[1]))
              => sorting.value.isValid

\* a hundred articles with one and the same timestamp are valid
C26_Witness ==
    /\ SortingCalled /\ articles.isArray /\ N = ExpectedCount
    /\ AllKnown /\ \A j \in 2..N : Ms(Items[j]) = Ms(Items[1])
    /\ ~sorting.threw /\ sorting.value.isValid
    /\ sorting.value.errorIndex = {}

\* C28: performFullValidation called with an empty collection throws the
\* invalid-input error of validateSorting and returns no result, although the
\* content, freshness and uniqueness validators accept the empty collection.
C28_EmptyRejected ==
    (FullCalled /\ articles.isArray /\ N = 0) =>
        /\ full = Throw(InvalidInput)
        /\ sorting = Throw(InvalidInput)
        /\ content = Return(<<>>)
        /\ timestampAccuracy = Return([isAccurate |-> TRUE, inaccurateArticles |-> <<>>])
        /\ uniqueness = Return([isUnique |-> TRUE, duplicates |-> <<>>])

C28_Witness ==
    /\ FullCalled /\ articles.isArray /\ N = 0
    /\ full.threw /\ full.value = InvalidInput
    /\ ~content.threw /\ ~timestampAccuracy.threw /\ ~uniqueness.threw

\* C29: every result of validateSorting is well formed: a result with an
\* errorIndex has isValid = false and 1 <= errorIndex <= 99; a result with
\* isValid = true, and a count-mismatch result, carry no errorIndex.
C29_SortingResultWellFormed ==
    (SortingCalled /\ ~sorting.threw) =>
        /\ Cardinality(sorting.value.errorIndex) <= 1
        /\ \A e \in sorting.value.errorIndex :
              ~sorting.value.isValid /\ 1 <= e /\ e <= ExpectedCount - 1
        /\ sorting.value.isValid => sorting.value.errorIndex = {}
        /\ N # ExpectedCount => sorting.value.errorIndex = {}

\* the first article is newer than the second and is not reported: the
\* second one is, with errorIndex 1
C29_Witness ==
    /\ SortingCalled /\ ~sorting.threw /\ N = ExpectedCount
    /\ Known(Items[1]) /\ Known(Items[2]) /\ Ms(Items[2]) > Ms(Items[1])
    /\ ~sorting.value.isValid
    /\ sorting.value.errorIndex = {1}

\* C27: validateTimestampAccuracy samples the current time once, before it
\* reads any article, and compares every article with that instant although
\* the clock advances while reads are awaited: an article is flagged exactly
\* when it is stale at the sampled instant, so two articles with equal known
\* timestamps are both flagged or both not.
C27_NowSampledOnce ==
    /\ (pc = "running" \/ (ConcDone /\ tasks # NoTasks))
          => (tasks.accuracy.st.now = now /\ now <= clock)
    /\ (ConcDone /\ ~full.threw) =>
          LET flagged == IndexSet(full.value.timestampAccuracy.inaccurateArticles)
          IN  /\ flagged = {j - 1 : j \in {m \in 1..N : Stale(Items[m])}}
              /\ \A i, j \in 1..N :
                    (Known(Items[i]) /\ Known(Items[j]) /\ Ms(Items[i]) = Ms(Items[j]))
                        => ((i - 1) \in flagged <=> (j - 1) \in flagged)

\* two articles with the same timestamp, aged exactly the threshold at the
\* sampled instant and more than the threshold when the call returns: neither
\* is flagged
C27_Witness ==
    /\ ConcDone /\ ~full.threw /\ N = 2
    /\ Known(Items[1]) /\ Known(Items[2]) /\ Ms(Items[1]) = Ms(Items[2])
    /\ now - Ms(Items[1]) = timeThreshold
    /\ clock - Ms(Items[1]) > timeThreshold
    /\ full.value.timestampAccuracy.inaccurateArticles = <<>>
    /\ full.value.timestampAccuracy.isAccurate

\* C30: the content list performFullValidation returns has one entry per
\* article, and content[i] is the result of validating the article at index
\* i, whatever order the validations return in.
C30_ContentInIndexOrder ==
    (ConcDone /\ ~full.threw) =>
        /\ Len(full.value.content) = N
        /\ \A j \in 1..N :
              /\ ~validateArticleContent(Items[j]).threw
              /\ full.value.content[j] = validateArticleContent(Items[j]).value

\* the validation of the second article returned before that of the first
C30_Witness ==
    /\ ConcDone /\ ~full.threw /\ N = 2
    /\ \E a, b \in 1..Len(tasks.settled) :
          /\ a < b
          /\ tasks.settled[a] = [task |-> "content", index |-> 1]
          /\ tasks.settled[b] = [task |-> "content", index |-> 0]
    /\ full.value.content[1] # full.value.content[2]
    /\ full.value.content[1].details.title = TitleOf(Items[1])
    /\ full.value.content[2].details.title = TitleOf(Items[2])

\* getFirstHundredArticles has returned
Listed == op \in {"getFirstHundredArticles", "pageValidateSorting"} /\ ~firstHundred.threw

\* the main suite's step has run
StepDone == pc = "done" /\ op = "validateArticleSorting"

\* the row of rank r (counted from 1) over the four pages
RowAt(r) == views[((r - 1) \div PageSize) + 1][((r - 1) % PageSize) + 1]

\* what the extraction gives for a row whose time marker is the instant 0
EpochZero == DateGetTime([kind |-> "date", ms |-> 0])

\* C21: a row without an age element never gets a timestamp that could be
\* taken for the real instant 0, neither from getFirstHundredArticles nor
\* from ArticleValidator.getArticleTimestamp.
C21_AbsentNotEpochZero ==
    /\ Listed =>
          \A r \in 1..Len(firstHundred.value) :
              ~RowAt(r).age.found => firstHundred.value[r].timestamp # EpochZero
    /\ StepDone =>
          \A j \in 1..N :
              ~Items[j].age.found => accuracyLog[j] # EpochZero

\* the part of C21 that is about ArticleValidator.getArticleTimestamp
C21_ValidatorAbsentIsNull ==
    StepDone =>
        \A j \in 1..N : ~Items[j].age.found => accuracyLog[j] = Null

\* C22: HackerNewsPage.validateSorting returns true exactly when every
\* article's timestamp is less than or equal to that of the article before
\* it, which is the verdict of the running check of the sorting test.
C22_PageSortingVerdict ==
    (pc = "done" /\ op = "pageValidateSorting") =>
        LET list == firstHundred.value
        IN  /\ isSorted.value <=>
                  (\A j \in 2..Len(list) :
                      /\ list[j].timestamp.k = "num" /\ list[j - 1].timestamp.k = "num"
                      /\ list[j].timestamp.v <= list[j - 1].timestamp.v)
            /\ isSorted.value <=> runningCheck(list)

\* the first article's time marker does not parse: both verdicts are false
C22_Witness ==
    /\ pc = "done" /\ op = "pageValidateSorting"
    /\ firstHundred.value[1].timestamp = NaN
    /\ \A j \in 3..Len(firstHundred.value) :
          JsLe(firstHundred.value[j].timestamp, firstHundred.value[j - 1].timestamp)
    /\ ~isSorted.value
    /\ ~runningCheck(firstHundred.value)

\* a sorted list with a tie: both verdicts are true
C22_SortedWitness ==
    /\ pc = "done" /\ op = "pageValidateSorting"
    /\ \E j \in 2..Len(firstHundred.value) :
          firstHundred.value[j].timestamp = firstHundred.value[j - 1].timestamp
    /\ isSorted.value
    /\ runningCheck(firstHundred.value)

C24_StepValidatesHundred ==
    StepDone =>
        /\ N = ExpectedCount
        /\ ~sorting.threw
        /\ sorting.value.message # CountMismatchMessage(N)

====
